---- MODULE Spec2Model ----
(***************************************************************************)
(* Model of the layered ETL units (bronze / silver / gold): the recursive  *)
(* extract_upstream / run() chain, the partition-resolving read(), the     *)
(* validation gate and the append-only write path.                         *)
(***************************************************************************)
EXTENDS Integers, Sequences, FiniteSets, TLC

(* ------------------------------------------------------------------ *)
(* Bounds                                                              *)
(* ------------------------------------------------------------------ *)
\* number of distinct clock readings datetime.now() can return
MaxTs == 2
\* number of write() calls the single-unit driver performs
MaxWrites == 2
\* number of orders in an envelope handed to the daily transform
MaxOrders == 3

(* ------------------------------------------------------------------ *)
(* Values, rows and dataframes                                         *)
(* ------------------------------------------------------------------ *)
\* SQL NULL / Python None inside a row
NULL == 0 - 1

\* value of an array column that is NULL (collect_list never yields an empty list)
NullList == << >>

Range(s) == {s[i] : i \in 1..Len(s)}

\* a dataframe: ordered column names and a sequence of rows (functions col -> value)
DataFrame(cols, rows) == [cols |-> cols, rows |-> rows]

\* the value a failed collaborator call leaves: the exception propagates
Raised == [raised |-> TRUE]

Returned(df) == [raised |-> FALSE, df |-> df]

HasColumns(df, cols) == Range(cols) \subseteq Range(df.cols)

\* DataFrame.select: fails on a column the dataframe does not have
Select(df, cols) ==
    IF HasColumns(df, cols)
    THEN Returned(DataFrame(cols,
             [i \in 1..Len(df.rows) |-> [c \in Range(cols) |-> df.rows[i][c]]]))
    ELSE Raised

\* DataFrame.drop(name): dropping an absent column is a no-op
Drop(df, name) ==
    LET keep == SelectSeq(df.cols, LAMBDA c : c # name)
    IN DataFrame(keep,
           [i \in 1..Len(df.rows) |-> [c \in Range(keep) |-> df.rows[i][c]]])

\* DataFrame.withColumn(name, lit(v)): replaces the column in place or appends it
WithLit(df, name, v) ==
    LET cols == IF name \in Range(df.cols) THEN df.cols ELSE Append(df.cols, name)
    IN DataFrame(cols,
           [i \in 1..Len(df.rows) |->
               [c \in Range(cols) |-> IF c = name THEN v ELSE df.rows[i][c]]])

Filter(df, P(_)) == DataFrame(df.cols, SelectSeq(df.rows, P))

RECURSIVE Flatten(_)
Flatten(ss) == IF ss = << >> THEN << >> ELSE Head(ss) \o Flatten(Tail(ss))

FlatMap(s, F(_)) == Flatten([i \in 1..Len(s) |-> F(s[i])])

\* the name a right-side column gets in a join result when the left side has a
\* column of that name too: Spark keeps both, told apart by the dataframe they
\* came from
Qualified(tag, c) == tag \o "." \o c

\* the sides a join result tells its same-named columns apart by
JoinTags == {"product", "seller", "category", "grain"}

\* the name a column of a join result shows in df.columns
BaseName(c) ==
    IF \E t \in JoinTags : c = Qualified(t, "etl_inserted") THEN "etl_inserted" ELSE c

JoinColumns(left, right, key, tag) ==
    left.cols \o [i \in 1..Len(SelectSeq(right.cols, LAMBDA c : c # key)) |->
                    LET c == SelectSeq(right.cols, LAMBDA x : x # key)[i]
                    IN IF c \in Range(left.cols) THEN Qualified(tag, c) ELSE c]

JoinRow(left, right, key, tag, l, r) ==
    [c \in Range(JoinColumns(left, right, key, tag)) |->
        IF c \in Range(left.cols) THEN l[c]
        ELSE IF c \in Range(right.cols) THEN r[c]
        ELSE r[CHOOSE b \in Range(right.cols) : Qualified(tag, b) = c]]

\* DataFrame.join(right, key, "left") on one using-column: the key appears once,
\* unmatched left rows get NULL in the right side's columns
LeftJoin(left, right, key, tag, nullOf(_)) ==
    LET NullRow == [c \in Range(right.cols) |-> nullOf(c)]
        Match(l) == SelectSeq(right.rows, LAMBDA r : l[key] # NULL /\ r[key] = l[key])
        Expand(l) == IF Match(l) = << >>
                     THEN << JoinRow(left, right, key, tag, l, NullRow) >>
                     ELSE [j \in 1..Len(Match(l)) |->
                              JoinRow(left, right, key, tag, l, Match(l)[j])]
    IN DataFrame(JoinColumns(left, right, key, tag), FlatMap(left.rows, Expand))

\* DataFrame.join(right, key): inner join on one using-column
InnerJoin(left, right, key, tag) ==
    LET Match(l) == SelectSeq(right.rows, LAMBDA r : l[key] # NULL /\ r[key] = l[key])
        Expand(l) == [j \in 1..Len(Match(l)) |->
                         JoinRow(left, right, key, tag, l, Match(l)[j])]
    IN DataFrame(JoinColumns(left, right, key, tag), FlatMap(left.rows, Expand))

\* the distinct values of a column in first-appearance order (groupBy keys)
RECURSIVE Distinct(_)
Distinct(s) ==
    IF s = << >> THEN << >>
    ELSE LET d == Distinct(SubSeq(s, 1, Len(s) - 1))
         IN IF s[Len(s)] \in Range(d) THEN d ELSE Append(d, s[Len(s)])

Column(df, c) == [i \in 1..Len(df.rows) |-> df.rows[i][c]]

RECURSIVE SumSeq(_)
SumSeq(s) == IF s = << >> THEN 0 ELSE Head(s) + SumSeq(Tail(s))

\* rows as a bag: the number of occurrences of each row
Count(rows, r) == Cardinality({i \in 1..Len(rows) : rows[i] = r})
SameRows(a, b) == \A r \in Range(a) \cup Range(b) : Count(a, r) = Count(b, r)
(* ------------------------------------------------------------------ *)
(* Ingestion timestamps and their spelling in filter strings           *)
(* ------------------------------------------------------------------ *)
\* microseconds per second: datetime keeps microseconds, str() prints them
\* only when they are not zero
UsecPerSec == 1000000

\* the readings datetime.now() can return; every second one is a whole second
Timestamps == {i * (UsecPerSec \div 2) : i \in 1..MaxTs}

FirstReading == CHOOSE t \in Timestamps : \A x \in Timestamps : t <= x

\* str(datetime) as the f-string of read() interpolates it; None prints "None"
FormatTs(t) ==
    IF t = NULL THEN "None"
    ELSE IF t % UsecPerSec = 0
         THEN ToString(t \div UsecPerSec)
         ELSE ToString(t \div UsecPerSec) \o "." \o ToString(t % UsecPerSec)

\* the cast of a string literal to a timestamp, as the comparison
\* etl_inserted = '<literal>' applies it: NULL when the text is no timestamp
CastTs(text) ==
    LET known == {t \in Timestamps :
                     \/ text = FormatTs(t)
                     \/ text = ToString(t \div UsecPerSec) \o "." \o ToString(t % UsecPerSec)}
    IN IF known = {} THEN NULL ELSE CHOOSE t \in known : TRUE

(* ------------------------------------------------------------------ *)
(* The units: declarations of the classes                              *)
(* ------------------------------------------------------------------ *)
BronzeUnits == {"OrdersBronzeETL", "OrderItemsBronzeETL", "ProductBronzeETL",
                "SellerBronzeETL", "ProductCategoryBronzeETL", "CategoryBronzeETL"}

SilverUnits == {"FactOrdersSiverETL", "FactOrderItemsSiverETL", "DimProductSiverETL",
                "DimSellerSiverETL", "ProductCategorySiverETL", "DimCategorySiverETL"}

GoldUnits == {"DailyOrderMetricsGoldETL", "WideOrderItemsGoldETL", "WideOrdersGoldETL"}

Units == BronzeUnits \cup SilverUnits \cup GoldUnits

\* upstream_tables defaults of the two gold classes of the repository
GoldUpstreamTables(u) ==
    CASE u = "DailyOrderMetricsGoldETL" -> << "WideOrdersGoldETL" >>
      [] u = "WideOrderItemsGoldETL" ->
             << "FactOrderItemsSiverETL", "DimProductSiverETL", "DimSellerSiverETL",
                "ProductCategorySiverETL", "DimCategorySiverETL" >>

\* upstream_tables of the classes below them: one unit of the layer below each,
\* none for the bronze leaves
LowerUpstreamTables(u) ==
    CASE u = "WideOrdersGoldETL"       -> << "FactOrdersSiverETL" >>
      [] u = "FactOrdersSiverETL"      -> << "OrdersBronzeETL" >>
      [] u = "FactOrderItemsSiverETL"  -> << "OrderItemsBronzeETL" >>
      [] u = "DimProductSiverETL"      -> << "ProductBronzeETL" >>
      [] u = "DimSellerSiverETL"       -> << "SellerBronzeETL" >>
      [] u = "ProductCategorySiverETL" -> << "ProductCategoryBronzeETL" >>
      [] u = "DimCategorySiverETL"     -> << "CategoryBronzeETL" >>
      [] OTHER                         -> << >>

upstream_tables(u) ==
    IF u \in {"DailyOrderMetricsGoldETL", "WideOrderItemsGoldETL"}
    THEN GoldUpstreamTables(u) ELSE LowerUpstreamTables(u)

\* primary_keys defaults of the two gold classes
GoldPrimaryKeys(u) ==
    CASE u = "DailyOrderMetricsGoldETL" -> << "order_ts" >>
      [] u = "WideOrderItemsGoldETL"    -> << "order_item_id" >>

\* the columns of the raw source table a bronze unit reads
RawColumns(u) ==
    CASE u = "OrdersBronzeETL" -> << "order_id", "order_ts", "total_price", "is_active" >>
      [] u = "OrderItemsBronzeETL" ->
             << "order_item_id", "order_id", "product_id", "seller_id", "quantity",
                "base_price", "tax", "created_ts" >>
      [] u = "ProductBronzeETL" -> << "product_id" >>
      [] u = "SellerBronzeETL" ->
             << "seller_id", "user_id", "first_time_sold_timestamp", "created_ts",
                "last_updated_by", "last_updated_ts" >>
      [] u = "ProductCategoryBronzeETL" -> << "product_id", "category_id" >>
      [] u = "CategoryBronzeETL" ->
             << "category_id", "name", "created_ts", "last_updated_by", "last_updated_ts" >>

LowerPrimaryKeys(u) ==
    CASE u \in {"WideOrdersGoldETL", "FactOrdersSiverETL", "OrdersBronzeETL"} -> << "order_id" >>
      [] u \in {"FactOrderItemsSiverETL", "OrderItemsBronzeETL"} -> << "order_item_id" >>
      [] u \in {"DimProductSiverETL", "ProductBronzeETL"} -> << "product_id" >>
      [] u \in {"DimSellerSiverETL", "SellerBronzeETL"} -> << "seller_id" >>
      [] u \in {"ProductCategorySiverETL", "ProductCategoryBronzeETL"} ->
             << "product_id", "category_id" >>
      [] u \in {"DimCategorySiverETL", "CategoryBronzeETL"} -> << "category_id" >>

primary_keys(u) ==
    IF u \in {"DailyOrderMetricsGoldETL", "WideOrderItemsGoldETL"}
    THEN GoldPrimaryKeys(u) ELSE LowerPrimaryKeys(u)

\* selected_columns of DailyOrderMetricsGoldETL.read
DailySelectedColumns ==
    << "order_date", "total_price_sum", "total_price_mean", "etl_inserted" >>

\* selected_columns of WideOrderItemsGoldETL.read
WideSelectedColumns ==
    << "order_item_id", "order_id", "product_id", "seller_id", "quantity", "base_price",
       "actual_price", "created_ts", "tax", "categories", "etl_inserted" >>

\* the canonical column list of the units below the two gold classes
LowerSelectedColumns(u) ==
    CASE u \in BronzeUnits -> Append(RawColumns(u), "etl_inserted")
      [] u \in {"WideOrdersGoldETL", "FactOrdersSiverETL"} ->
             << "order_id", "order_ts", "total_price", "is_active", "etl_inserted" >>
      [] u = "FactOrderItemsSiverETL" ->
             << "order_item_id", "order_id", "product_id", "seller_id", "quantity",
                "base_price", "tax", "actual_price", "created_ts", "etl_inserted" >>
      [] u = "DimProductSiverETL" -> << "product_id", "etl_inserted" >>
      [] u = "DimSellerSiverETL" -> << "seller_id", "etl_inserted" >>
      [] u = "ProductCategorySiverETL" -> << "product_id", "category_id", "etl_inserted" >>
      [] u = "DimCategorySiverETL" -> << "category_id", "category_name", "etl_inserted" >>

selected_columns(u) ==
    CASE u = "DailyOrderMetricsGoldETL" -> DailySelectedColumns
      [] u = "WideOrderItemsGoldETL"    -> WideSelectedColumns
      [] OTHER                          -> LowerSelectedColumns(u)

\* ETLDataSet: the envelope around a dataframe
ETLDataSet(name, current_data, pks) ==
    [name |-> name, current_data |-> current_data, primary_keys |-> pks]
(* ------------------------------------------------------------------ *)
(* transform_upstream of the units                                     *)
(* ------------------------------------------------------------------ *)
\* order_ts is counted in hours; the cast to date drops the hour of the day
HoursPerDay == 24

CastDate(ts) == IF ts = NULL THEN NULL ELSE ts \div HoursPerDay

RECURSIVE Gcd(_, _)
Gcd(a, b) == IF b = 0 THEN a ELSE Gcd(b, a % b)

\* an exact mean: the reduced fraction num/den; NullMean when nothing is averaged
NullMean == [num |-> 0, den |-> 0]
Mean(vals) ==
    IF vals = << >> THEN NullMean
    ELSE LET g == Gcd(SumSeq(vals), Len(vals))
         IN [num |-> SumSeq(vals) \div g, den |-> Len(vals) \div g]

\* a plausible slip: the filter on is_active is left out
DailyTransformKeepsInactive(upstream_datasets, current_timestamp) ==
    LET wide_orders_data == upstream_datasets[1].current_data
        dates == Distinct([i \in 1..Len(wide_orders_data.rows) |->
                              CastDate(wide_orders_data.rows[i]["order_ts"])])
        Prices(d) == LET of == SelectSeq(wide_orders_data.rows,
                                   LAMBDA r : CastDate(r["order_ts"]) = d)
                     IN [i \in 1..Len(of) |-> of[i]["total_price"]]
    IN Returned(WithLit(
           DataFrame(<< "order_date", "total_price_sum", "total_price_mean" >>,
               [i \in 1..Len(dates) |->
                   [c \in {"order_date", "total_price_sum", "total_price_mean"} |->
                       CASE c = "order_date" -> dates[i]
                         [] c = "total_price_sum" -> SumSeq(Prices(dates[i]))
                         [] c = "total_price_mean" -> Mean(Prices(dates[i]))]]),
           "etl_inserted", current_timestamp))

\* DailyOrderMetricsGoldETL.transform_upstream: the dataframe it builds
DailyTransform(upstream_datasets, current_timestamp) ==
    LET wide_orders_data == upstream_datasets[1].current_data
    IN IF ~HasColumns(wide_orders_data, << "order_ts", "is_active", "total_price" >>)
       THEN Raised
       ELSE
       LET dated  == [i \in 1..Len(wide_orders_data.rows) |->
                         [order_date  |-> CastDate(wide_orders_data.rows[i]["order_ts"]),
                          is_active   |-> wide_orders_data.rows[i]["is_active"],
                          total_price |-> wide_orders_data.rows[i]["total_price"]]]
           active == SelectSeq(dated, LAMBDA r : r.is_active = TRUE)
           dates  == Distinct([i \in 1..Len(active) |-> active[i].order_date])
           Prices(d) == LET of == SelectSeq(active,
                                      LAMBDA r : r.order_date = d /\ r.total_price # NULL)
                        IN [i \in 1..Len(of) |-> of[i].total_price]
           daily_metrics_data ==
               DataFrame(<< "order_date", "total_price_sum", "total_price_mean" >>,
                   [i \in 1..Len(dates) |->
                       [c \in {"order_date", "total_price_sum", "total_price_mean"} |->
                           CASE c = "order_date" -> dates[i]
                             [] c = "total_price_sum" ->
                                    IF Prices(dates[i]) = << >> THEN NULL
                                    ELSE SumSeq(Prices(dates[i]))
                             [] c = "total_price_mean" -> Mean(Prices(dates[i]))]])
       IN Returned(WithLit(daily_metrics_data, "etl_inserted", current_timestamp))

NullOfColumn(c) == IF c = "categories" THEN NullList ELSE NULL

\* a plausible slip: only the fact side's etl_inserted is dropped
DropFactTimestampOnly(df) == Drop(df, "etl_inserted")

\* the three drops of the sides' etl_inserted columns, by reference
DropSideTimestamps(df) ==
    Drop(Drop(Drop(df, "etl_inserted"), Qualified("product", "etl_inserted")),
         Qualified("seller", "etl_inserted"))

\* WideOrderItemsGoldETL.transform_upstream: the dataframe it builds
WideTransform(upstream_datasets, current_timestamp) ==
    LET fact_order_items_data == upstream_datasets[1].current_data
        dim_product_data      == upstream_datasets[2].current_data
        dim_seller_data       == upstream_datasets[3].current_data
        product_category_data == upstream_datasets[4].current_data
        dim_category_data     == upstream_datasets[5].current_data
    IN IF \/ ~HasColumns(fact_order_items_data, << "product_id", "seller_id", "etl_inserted" >>)
          \/ ~HasColumns(dim_product_data, << "product_id", "etl_inserted" >>)
          \/ ~HasColumns(dim_seller_data, << "seller_id", "etl_inserted" >>)
          \/ ~HasColumns(product_category_data, << "product_id", "category_id", "etl_inserted" >>)
          \/ ~HasColumns(dim_category_data, << "category_id", "category_name", "etl_inserted" >>)
       THEN Raised
       ELSE
       LET joined == LeftJoin(LeftJoin(fact_order_items_data, dim_product_data,
                                       "product_id", "product", NullOfColumn),
                              dim_seller_data, "seller_id", "seller", NullOfColumn)
           product_category_enriched_data ==
               Drop(Drop(InnerJoin(product_category_data, dim_category_data,
                                   "category_id", "category"),
                         Qualified("category", "etl_inserted")), "etl_inserted")
           products == Distinct(Column(product_category_enriched_data, "product_id"))
           Categories(p) ==
               LET of == SelectSeq(product_category_enriched_data.rows,
                                   LAMBDA r : r["product_id"] = p)
               IN [i \in 1..Len(of) |-> [category_id   |-> of[i]["category_id"],
                                         category_name |-> of[i]["category_name"]]]
           product_category_data_product_grain ==
               DataFrame(<< "product_id", "categories" >>,
                   [i \in 1..Len(products) |->
                       [c \in {"product_id", "categories"} |->
                           IF c = "product_id" THEN products[i] ELSE Categories(products[i])]])
           wide_order_items_data ==
               LeftJoin(joined, product_category_data_product_grain,
                        "product_id", "grain", NullOfColumn)
       IN Returned(WithLit(DropSideTimestamps(wide_order_items_data),
                           "etl_inserted", current_timestamp))

\* a plausible slip: rows without a key are filtered out while stamping
BronzeTransformDropNulls(upstream_datasets, current_timestamp) ==
    Returned(WithLit(Filter(upstream_datasets[1].current_data,
                            LAMBDA r : r[upstream_datasets[1].current_data.cols[1]] # NULL),
                     "etl_inserted", current_timestamp))

\* a bronze transform_upstream: the raw rows with the ingestion timestamp appended
BronzeTransform(upstream_datasets, current_timestamp) ==
    Returned(WithLit(upstream_datasets[1].current_data, "etl_inserted", current_timestamp))

\* the derived price of the silver fact: base price minus tax
ActualPrice(r) ==
    IF r["base_price"] = NULL \/ r["tax"] = NULL THEN NULL ELSE r["base_price"] - r["tax"]

\* transform_upstream of the silver units and of WideOrdersGoldETL: the upstream
\* rows conformed to the unit's columns and stamped anew
ConformTransform(u, upstream_datasets, current_timestamp) ==
    LET up   == upstream_datasets[1].current_data
        cols == SelectSeq(selected_columns(u), LAMBDA c : c # "etl_inserted")
        Source(c) == IF c = "category_name" THEN "name" ELSE c
        needed == {Source(c) : c \in Range(cols) \ {"actual_price"}}
                      \cup (IF "actual_price" \in Range(cols) THEN {"base_price", "tax"} ELSE {})
    IN IF ~(needed \subseteq Range(up.cols)) THEN Raised
       ELSE Returned(WithLit(
                DataFrame(cols,
                    [i \in 1..Len(up.rows) |->
                        [c \in Range(cols) |->
                            IF c = "actual_price" THEN ActualPrice(up.rows[i])
                            ELSE up.rows[i][Source(c)]]]),
                "etl_inserted", current_timestamp))

\* the dataframe transform_upstream of unit u builds from the upstream envelopes
Transformed(u, upstream_datasets, current_timestamp) ==
    CASE u = "DailyOrderMetricsGoldETL" -> DailyTransform(upstream_datasets, current_timestamp)
      [] u = "WideOrderItemsGoldETL"    -> WideTransform(upstream_datasets, current_timestamp)
      [] u \in BronzeUnits              -> BronzeTransform(upstream_datasets, current_timestamp)
      [] OTHER -> ConformTransform(u, upstream_datasets, current_timestamp)
(* ------------------------------------------------------------------ *)
(* Unit instances, storage, validate / write / read                    *)
(* ------------------------------------------------------------------ *)
NoData == DataFrame(<< >>, << >>)

\* TableETL.__init__: a fresh instance holds no current_data; ran records how the
\* instance's run() ended, once it has
TableETL(cls, run_upstream, write_data) ==
    [unit |-> cls, run_upstream |-> run_upstream, write_data |-> write_data,
     has_data |-> FALSE, current_data |-> NoData, ran |-> "no"]

\* a storage path nothing was written to yet
NoTable == [exists |-> FALSE, cols |-> << >>, rows |-> << >>]

\* every tuple of primary-key values is free of NULL
NoNullKeys(df, pks) ==
    \A i \in 1..Len(df.rows) : \A k \in Range(pks) : df.rows[i][k] # NULL

KeyTuple(r, pks) == [j \in 1..Len(pks) |-> r[pks[j]]]

\* a plausible slip: only the NULL check
ValidateNullsOnly(data) ==
    LET df == data.current_data
    IN IF ~HasColumns(df, data.primary_keys) THEN [raised |-> TRUE, ok |-> FALSE]
       ELSE [raised |-> FALSE, ok |-> NoNullKeys(df, data.primary_keys)]

\* validate(envelope): FALSE on a NULL or repeated primary key, never an error
\* for those; a primary-key column the data lacks fails in the dataframe engine
validate(data) ==
    LET df == data.current_data
    IN IF ~HasColumns(df, data.primary_keys) THEN [raised |-> TRUE, ok |-> FALSE]
       ELSE [raised |-> FALSE,
             ok |-> /\ NoNullKeys(df, data.primary_keys)
                    /\ Cardinality({KeyTuple(df.rows[i], data.primary_keys) :
                                       i \in 1..Len(df.rows)}) = Len(df.rows)]

\* a plausible slip: mode overwrite in place of append
WriteOverwrite(self, data, table) ==
    IF ~self.write_data THEN table
    ELSE [exists |-> TRUE, cols |-> data.current_data.cols, rows |-> data.current_data.rows]

\* write(envelope): append to the unit's storage path; nothing when write_data is off
write(self, data, table) ==
    IF ~self.write_data THEN table
    ELSE [exists |-> TRUE, cols |-> data.current_data.cols,
          rows |-> table.rows \o data.current_data.rows]

\* f"{k} = '{v}'": the characters of one clause, words separated by blanks
Clause(kv) == << kv[1], " ", "=", " ", "'" \o kv[2] \o "'" >>

\* sep.join(parts) over sequences of characters
RECURSIVE Join(_, _)
Join(sep, parts) ==
    IF parts = << >> THEN << >>
    ELSE IF Len(parts) = 1 THEN parts[1]
    ELSE parts[1] \o sep \o Join(sep, Tail(parts))

\* " AND".join(...): a blank before AND and none after it
PartitionFilter(partition_values) ==
    Join(<< " ", "AND" >>, [i \in 1..Len(partition_values) |-> Clause(partition_values[i])])

\* f"etl_inserted = '{latest_partition}'"
LatestFilter(latest_partition) == Clause(<< "etl_inserted", FormatTs(latest_partition) >>)

\* the words of a filter text: maximal runs of characters between blanks
RECURSIVE Words(_, _)
Words(chars, word) ==
    IF chars = << >> THEN (IF word = "" THEN << >> ELSE << word >>)
    ELSE IF Head(chars) = " "
         THEN (IF word = "" THEN << >> ELSE << word >>) \o Words(Tail(chars), "")
         ELSE Words(Tail(chars), word \o Head(chars))

\* the texts a quoted literal of a filter can hold
LiteralTexts ==
    {FormatTs(t) : t \in Timestamps} \cup {"None"}
        \cup {ToString(t \div UsecPerSec) \o "." \o ToString(t % UsecPerSec) : t \in Timestamps}

Quoted(w) == \E v \in LiteralTexts : w = "'" \o v \o "'"
Unquote(w) == CHOOSE v \in LiteralTexts : w = "'" \o v \o "'"

\* the filter grammar: col = 'lit' (AND col = 'lit')*
WellFormed(words) ==
    /\ Len(words) % 4 = 3
    /\ \A i \in 1..Len(words) :
          CASE i % 4 = 1 -> ~Quoted(words[i]) /\ words[i] \notin {"=", "AND"}
            [] i % 4 = 2 -> words[i] = "="
            [] i % 4 = 3 -> Quoted(words[i])
            [] OTHER     -> words[i] = "AND"

ParsedClauses(words) ==
    [j \in 1..((Len(words) + 1) \div 4) |-> << words[4 * j - 3], Unquote(words[4 * j - 1]) >>]

\* col = 'text' on one row: the literal is cast to the column's type
ClauseHolds(r, clause) ==
    IF clause[1] = "etl_inserted"
    THEN CastTs(clause[2]) # NULL /\ r[clause[1]] = CastTs(clause[2])
    ELSE ToString(r[clause[1]]) = clause[2]

\* spark.read.load(path).filter(text): fails on a missing path, on text that does
\* not parse and on a column the table lacks
LoadFiltered(table, text) ==
    LET words == Words(text, "")
    IN IF ~table.exists \/ ~WellFormed(words) THEN Raised
       ELSE IF \E j \in 1..Len(ParsedClauses(words)) :
                   ParsedClauses(words)[j][1] \notin Range(table.cols)
       THEN Raised
       ELSE Returned(DataFrame(table.cols,
                SelectSeq(table.rows,
                    LAMBDA r : \A j \in 1..Len(ParsedClauses(words)) :
                                   ClauseHolds(r, ParsedClauses(words)[j]))))

\* selectExpr("max(etl_inserted)").collect()[0][0]: None on an empty table
MaxPartition(table) ==
    IF table.rows = << >> THEN NULL
    ELSE CHOOSE m \in Range(Column(table, "etl_inserted")) :
             \A x \in Range(Column(table, "etl_inserted")) : x <= m

ReadResult(res, loads) ==
    IF res.raised THEN [raised |-> TRUE, df |-> NoData, loads |-> loads]
    ELSE [raised |-> FALSE, df |-> res.df, loads |-> loads]

\* a plausible slip: the partition filter is looked at before write_data
ReadModePartitionFirst(self, partition_values) ==
    IF partition_values # << >> THEN "partition"
    ELSE IF ~self.write_data THEN "memory" ELSE "latest"

\* a plausible slip: partition_values is never looked at
ReadModeLatestOnly(self, partition_values) ==
    IF ~self.write_data THEN "memory" ELSE "latest"

\* the branch read() takes: if not write_data / elif partition_values / else
ReadMode(self, partition_values) ==
    IF ~self.write_data THEN "memory"
    ELSE IF partition_values # << >> THEN "partition" ELSE "latest"

\* read(partition_values): the dataframe of the envelope it returns and the number
\* of loads of the storage path it made
read(self, partition_values, table) ==
    LET selected == selected_columns(self.unit)
    IN IF ReadMode(self, partition_values) = "memory"
       THEN IF ~self.has_data THEN ReadResult(Raised, 0)
            ELSE ReadResult(Select(self.current_data, selected), 0)
       ELSE IF ReadMode(self, partition_values) = "partition"
       THEN LET got == LoadFiltered(table, PartitionFilter(partition_values))
            IN IF got.raised THEN ReadResult(Raised, 1)
               ELSE ReadResult(Select(got.df, selected), 1)
       ELSE IF ~table.exists \/ "etl_inserted" \notin Range(table.cols)
            THEN ReadResult(Raised, 1)
            ELSE LET got == LoadFiltered(table, LatestFilter(MaxPartition(table)))
                 IN IF got.raised THEN ReadResult(Raised, 2)
                    ELSE ReadResult(Select(got.df, selected), 2)
(* ------------------------------------------------------------------ *)
(* The raw source tables the bronze units read                         *)
(* ------------------------------------------------------------------ *)
Row(cols, vals) == [c \in Range(cols) |-> vals[CHOOSE i \in 1..Len(cols) : cols[i] = c]]

\* the states of the raw source store the runs are given: clean tables, tables
\* with a repeated primary key, tables with a NULL primary key, empty tables
RawSnapshots == {"clean", "repeated_key", "null_key", "empty"}

CleanRows(u) ==
    CASE u = "OrdersBronzeETL" -> << << 1, 30, 20, TRUE >>, << 2, 35, 30, TRUE >>,
                                     << 3, 40, 50, FALSE >> >>
      [] u = "OrderItemsBronzeETL" -> << << 1, 1, 5, 7, 2, 100, 10, 3 >> >>
      [] u = "ProductBronzeETL" -> << << 5 >> >>
      [] u = "SellerBronzeETL" -> << << 7, 1, 2, 3, 4, 5 >> >>
      [] u = "ProductCategoryBronzeETL" -> << << 5, 9 >> >>
      [] u = "CategoryBronzeETL" -> << << 9, 4, 1, 2, 3 >> >>

\* a second row with the key of the first and another value after it
RepeatedKeyRow(u) ==
    CASE u = "OrdersBronzeETL" -> << 1, 31, 21, TRUE >>
      [] u = "OrderItemsBronzeETL" -> << 1, 2, 5, 7, 3, 100, 10, 3 >>
      [] u = "ProductBronzeETL" -> << 5 >>
      [] u = "SellerBronzeETL" -> << 7, 2, 2, 3, 4, 5 >>
      [] u = "ProductCategoryBronzeETL" -> << 5, 9 >>
      [] u = "CategoryBronzeETL" -> << 9, 6, 1, 2, 3 >>

RawRows(snapshot, u) ==
    CASE snapshot = "clean" -> CleanRows(u)
      [] snapshot = "repeated_key" -> Append(CleanRows(u), RepeatedKeyRow(u))
      [] snapshot = "null_key" -> << [CleanRows(u)[1] EXCEPT ![1] = NULL] >>
      [] OTHER -> << >>

\* the dataframe of a raw source table
RawTable(snapshot, u) ==
    DataFrame(RawColumns(u),
        [i \in 1..Len(RawRows(snapshot, u)) |-> Row(RawColumns(u), RawRows(snapshot, u)[i])])

\* a bronze extract_upstream: the one envelope of the raw source table
ExtractRaw(snapshot, u) == << ETLDataSet(u, RawTable(snapshot, u), primary_keys(u)) >>

\* the envelopes a caller hands to transform_upstream of unit u: what the upstream
\* units' read() returns after they ran in memory on a raw snapshot at time t
RECURSIVE Materialized(_, _, _)
Materialized(u, snapshot, t) ==
    LET ups == IF u \in BronzeUnits THEN ExtractRaw(snapshot, u)
               ELSE [i \in 1..Len(upstream_tables(u)) |->
                        Materialized(upstream_tables(u)[i], snapshot, t)]
    IN ETLDataSet(u, Select(Transformed(u, ups, t).df, selected_columns(u)).df,
                  primary_keys(u))

UpstreamDatasets(u, snapshot, t) ==
    IF u \in BronzeUnits THEN ExtractRaw(snapshot, u)
    ELSE [i \in 1..Len(upstream_tables(u)) |-> Materialized(upstream_tables(u)[i], snapshot, t)]

\* the envelopes handed to transform_upstream of every unit, for every raw
\* snapshot, stamped at the first clock reading
InputsOf ==
    [u \in Units |-> [snapshot \in RawSnapshots |->
        UpstreamDatasets(u, snapshot, FirstReading)]]
\* what transform_upstream of every unit builds from those envelopes at each reading
OutputsOf ==
    [u \in Units |-> [snapshot \in RawSnapshots |-> [t \in Timestamps |->
        Transformed(u, InputsOf[u][snapshot], t)]]]

(* ------------------------------------------------------------------ *)
(* State                                                               *)
(* ------------------------------------------------------------------ *)
VARIABLES
    storage,   \* storage path of each unit: the table written there
    stack,     \* the run() calls in progress, innermost last
    driver,    \* the top-level caller of run(): its flags, its target, the outcome
    api,       \* one unit driven method by method: instance, envelope, verdict, read
    written,   \* history: the envelopes write() persisted, in order
    clock      \* the last reading of the wall clock

vars == << storage, stack, driver, api, written, clock >>

EmptyStorage == [u \in Units |-> NoTable]

NoRead == [done |-> FALSE, partition_values |-> << >>, raised |-> FALSE,
           df |-> NoData, loads |-> 0]

IdleDriver == [phase |-> "idle", run_upstream |-> FALSE, write_data |-> FALSE,
               target |-> "", snapshot |-> "clean", transformed |-> {}, outcome |-> "none"]

\* datetime.now(): a reading of the wall clock, never before the last one
Now == {t \in Timestamps : t >= clock}

(* ------------------------------------------------------------------ *)
(* One unit driven through its methods, as the integration test does:  *)
(* transform_upstream, validate, write, read                           *)
(* ------------------------------------------------------------------ *)
\* the units driven this way: the two gold classes and the two tested bronze ones
ApiUnits == {"DailyOrderMetricsGoldETL", "WideOrderItemsGoldETL",
             "CategoryBronzeETL", "SellerBronzeETL"}

\* the partition_values a caller passes: none, one timestamp in either spelling
PartitionChoices ==
    {<< >>} \cup {<< << "etl_inserted", text >> >> : text \in LiteralTexts \ {"None"}}

\* a partition_values map of two keys: the partition column and the unit's first
\* canonical column
TwoKeyChoices(u) ==
    {<< << "etl_inserted", FormatTs(t) >>, << selected_columns(u)[1], ToString(1) >> >> :
        t \in Timestamps}

UnitInit ==
    /\ storage = EmptyStorage
    /\ stack = << >>
    /\ driver = IdleDriver
    /\ written = << >>
    /\ clock = FirstReading
    /\ \E u \in ApiUnits, w \in BOOLEAN :
          api = [inst |-> TableETL(u, TRUE, w), held |-> FALSE,
                 data |-> ETLDataSet(u, NoData, primary_keys(u)),
                 snapshot |-> "clean", stamp |-> NULL, verdict |-> "none", read |-> NoRead]

\* etl.transform_upstream(envelopes): stamps the rows, caches them on the instance
ApiTransform ==
    \E snapshot \in RawSnapshots, current_timestamp \in Now :
        LET u   == api.inst.unit
            out == OutputsOf[u][snapshot][current_timestamp]
        IN /\ ~out.raised
           /\ api' = [api EXCEPT
                  !.inst = [@ EXCEPT !.has_data = TRUE, !.current_data = out.df],
                  !.held = TRUE,
                  !.data = ETLDataSet(u, out.df, primary_keys(u)),
                  !.snapshot = snapshot,
                  !.stamp = current_timestamp,
                  !.verdict = "none",
                  !.read = NoRead]
           /\ clock' = current_timestamp
           /\ UNCHANGED << storage, stack, driver, written >>

\* etl.validate(envelope)
ApiValidate ==
    /\ api.held
    /\ api' = [api EXCEPT !.verdict = IF validate(api.data).raised THEN "raised"
                                      ELSE IF validate(api.data).ok THEN "true" ELSE "false"]
    /\ UNCHANGED << storage, stack, driver, written, clock >>

\* etl.write(envelope), once the caller has asserted that validate returned true
ApiWrite ==
    /\ api.held
    /\ api.verdict = "true"
    /\ Len(written) < MaxWrites
    /\ storage' = [storage EXCEPT ![api.inst.unit] = write(api.inst, api.data, @)]
    /\ written' = IF api.inst.write_data
                  THEN Append(written, [unit |-> api.inst.unit, stamp |-> api.stamp,
                                        df |-> api.data.current_data])
                  ELSE written
    /\ api' = [api EXCEPT !.read = NoRead]
    /\ UNCHANGED << stack, driver, clock >>

\* etl.read(partition_values)
ApiRead ==
    \E partition_values \in PartitionChoices \cup TwoKeyChoices(api.inst.unit) :
        LET got == read(api.inst, partition_values, storage[api.inst.unit])
        IN /\ api' = [api EXCEPT !.read = [done |-> TRUE,
                                           partition_values |-> partition_values,
                                           raised |-> got.raised, df |-> got.df,
                                           loads |-> got.loads]]
           /\ UNCHANGED << storage, stack, driver, written, clock >>

UnitNext == ApiTransform \/ ApiValidate \/ ApiWrite \/ ApiRead

SpecUnit == UnitInit /\ [][UnitNext]_vars
(* ------------------------------------------------------------------ *)
(* A top-level run(): the recursive chain of extract_upstream / run()  *)
(* ------------------------------------------------------------------ *)
\* the units a driver runs: the two gold classes
TopUnits == {"DailyOrderMetricsGoldETL", "WideOrderItemsGoldETL"}

\* what an earlier clean run of every unit left at the storage paths
PersistedStorage ==
    [u \in Units |->
        [exists |-> TRUE, cols |-> OutputsOf[u]["clean"][FirstReading].df.cols,
         rows |-> OutputsOf[u]["clean"][FirstReading].df.rows]]

\* a plausible slip: the constructor defaults in place of the caller's flags
UpstreamInstanceDefaults(self, table_etl_class) == TableETL(table_etl_class, TRUE, TRUE)

\* table_etl_class(spark=..., run_upstream=self.run_upstream, write_data=self.write_data)
UpstreamInstance(self, table_etl_class) ==
    TableETL(table_etl_class, self.run_upstream, self.write_data)

\* a plausible slip: the upstream is read without being run
RunsUpstreamNever(self) == FALSE

\* if self.run_upstream: table.run()
RunsUpstream(self) == self.run_upstream

\* a plausible slip: the newest envelope goes to the front of the list
CollectedInFront(upstream_etl_datasets, data) == << data >> \o upstream_etl_datasets

\* upstream_etl_datasets.append(table.read())
Collected(upstream_etl_datasets, data) == Append(upstream_etl_datasets, data)

\* a plausible slip: the write is not gated by the verdict
AfterValidateAlwaysWrite(ok) == "write"

\* run(): after validate, write on true and stop as Rejected on false
AfterValidate(ok) == IF ok THEN "write" ELSE "rejected"

\* the frame of one run() call
Frame(self, before) ==
    [self |-> self, pc |-> "extract", i |-> 1, upstream_etl_datasets |-> << >>,
     reads |-> << >>, table |-> self, data |-> ETLDataSet(self.unit, NoData, << >>),
     before |-> before]

Top == stack[Len(stack)]

SetTop(f) == [stack EXCEPT ![Len(stack)] = f]

\* the exception of a collaborator: it unwinds every run() of the chain
Abort ==
    /\ stack' = << >>
    /\ driver' = [driver EXCEPT !.phase = "finished", !.outcome = "raised"]
    /\ UNCHANGED << storage, api, written, clock >>

Init ==
    /\ storage \in {EmptyStorage, PersistedStorage}
    /\ stack = << >>
    /\ driver = IdleDriver
    /\ written = << >>
    /\ clock = FirstReading
    /\ api = [inst |-> TableETL("", FALSE, FALSE), held |-> FALSE,
              data |-> ETLDataSet("", NoData, << >>),
              snapshot |-> "clean", stamp |-> NULL, verdict |-> "none", read |-> NoRead]

\* the driver builds the target unit with its flags and calls run()
Start ==
    /\ driver.phase = "idle"
    /\ \E target \in TopUnits, run_upstream \in BOOLEAN, write_data \in BOOLEAN,
          snapshot \in RawSnapshots :
          /\ driver' = [driver EXCEPT !.phase = "running", !.target = target,
                                      !.run_upstream = run_upstream,
                                      !.write_data = write_data, !.snapshot = snapshot]
          /\ stack' = << Frame(TableETL(target, run_upstream, write_data), storage[target]) >>
    /\ UNCHANGED << storage, api, written, clock >>

\* extract_upstream, one turn of the loop: build the upstream instance and, when
\* run_upstream is set, call its run()
ExtractNext ==
    /\ stack # << >>
    /\ Top.pc = "extract"
    /\ Top.self.unit \notin BronzeUnits
    /\ Top.i <= Len(upstream_tables(Top.self.unit))
    /\ LET table == UpstreamInstance(Top.self, upstream_tables(Top.self.unit)[Top.i])
       IN IF RunsUpstream(Top.self)
          THEN stack' = Append(SetTop([Top EXCEPT !.table = table, !.pc = "await"]),
                               Frame(table, storage[table.unit]))
          ELSE stack' = SetTop([Top EXCEPT !.table = table, !.pc = "read"])
    /\ UNCHANGED << storage, driver, api, written, clock >>

\* table.run() returns to extract_upstream of the caller
Return ==
    /\ Len(stack) >= 2
    /\ Top.pc \in {"done", "rejected"}
    /\ stack' = [SubSeq(stack, 1, Len(stack) - 1) EXCEPT ![Len(stack) - 1] =
                    [@ EXCEPT !.table = [Top.self EXCEPT !.ran = Top.pc], !.pc = "read"]]
    /\ UNCHANGED << storage, driver, api, written, clock >>

\* upstream_etl_datasets.append(table.read()), and the return of the list after
\* the last upstream
ReadUpstream ==
    /\ stack # << >>
    /\ Top.pc = "read"
    /\ LET got == read(Top.table, << >>, storage[Top.table.unit])
           data == ETLDataSet(Top.table.unit, got.df, primary_keys(Top.table.unit))
       IN IF got.raised THEN Abort
          ELSE /\ stack' = SetTop([Top EXCEPT
                      !.upstream_etl_datasets = Collected(@, data),
                      !.reads = Append(@, [unit |-> Top.table.unit, df |-> got.df]),
                      !.i = @ + 1,
                      !.pc = IF Top.i = Len(upstream_tables(Top.self.unit))
                             THEN "transform" ELSE "extract"])
               /\ UNCHANGED << storage, driver, api, written, clock >>

\* extract_upstream of a bronze unit: the raw source table
ExtractSource ==
    /\ stack # << >>
    /\ Top.pc = "extract"
    /\ Top.self.unit \in BronzeUnits
    /\ stack' = SetTop([Top EXCEPT
           !.upstream_etl_datasets = ExtractRaw(driver.snapshot, Top.self.unit),
           !.pc = "transform"])
    /\ UNCHANGED << storage, driver, api, written, clock >>

\* transform_upstream: the output stamped with one reading of the clock and
\* cached on the instance
TransformUpstream ==
    /\ stack # << >>
    /\ Top.pc = "transform"
    /\ \E current_timestamp \in Now :
          LET out == Transformed(Top.self.unit, Top.upstream_etl_datasets, current_timestamp)
          IN IF out.raised THEN Abort
             ELSE /\ stack' = SetTop([Top EXCEPT
                         !.self = [@ EXCEPT !.has_data = TRUE, !.current_data = out.df],
                         !.data = ETLDataSet(Top.self.unit, out.df, primary_keys(Top.self.unit)),
                         !.pc = "validate"])
                  /\ driver' = [driver EXCEPT !.transformed = @ \cup {Top.self.unit}]
                  /\ clock' = current_timestamp
                  /\ UNCHANGED << storage, api, written >>

\* validate: the verdict decides between the write and the Rejected end
Validate ==
    /\ stack # << >>
    /\ Top.pc = "validate"
    /\ IF validate(Top.data).raised THEN Abort
       ELSE /\ stack' = SetTop([Top EXCEPT !.pc = AfterValidate(validate(Top.data).ok)])
            /\ UNCHANGED << storage, driver, api, written, clock >>

\* write: the end of a run() whose envelope passed
Write ==
    /\ stack # << >>
    /\ Top.pc = "write"
    /\ storage' = [storage EXCEPT ![Top.self.unit] = write(Top.self, Top.data, @)]
    /\ written' = IF Top.self.write_data
                  THEN Append(written, [unit |-> Top.self.unit,
                                        stamp |-> clock, df |-> Top.data.current_data])
                  ELSE written
    /\ stack' = SetTop([Top EXCEPT !.pc = "done"])
    /\ UNCHANGED << driver, api, clock >>

\* the top-level run() returns to the driver
Finish ==
    /\ Len(stack) = 1
    /\ Top.pc \in {"done", "rejected"}
    /\ stack' = << >>
    /\ driver' = [driver EXCEPT !.phase = "finished", !.outcome = Top.pc]
    /\ UNCHANGED << storage, api, written, clock >>

Next ==
    \/ Start
    \/ ExtractNext
    \/ Return
    \/ ReadUpstream
    \/ ExtractSource
    \/ TransformUpstream
    \/ Validate
    \/ Write
    \/ Finish

Spec == Init /\ [][Next]_vars

(* ------------------------------------------------------------------ *)
(* transform_upstream of a gold unit called on envelopes the caller    *)
(* built, as the unit tests do, followed by validate                   *)
(* ------------------------------------------------------------------ *)
\* the orders a caller puts into the envelope of WideOrdersGoldETL: order_ts in
\* hours (two of them on one day), total_price, is_active
OrderChoices == {30, 35, 50} \X {20, 30} \X BOOLEAN

OrderLists == UNION {[1..n -> OrderChoices] : n \in 0..MaxOrders}

\* the envelope of WideOrdersGoldETL holding the orders, stamped by its own run
OrdersEnvelope(orders) ==
    ETLDataSet("WideOrdersGoldETL",
        DataFrame(selected_columns("WideOrdersGoldETL"),
            [i \in 1..Len(orders) |->
                [c \in Range(selected_columns("WideOrdersGoldETL")) |->
                    CASE c = "order_id"     -> i
                      [] c = "order_ts"     -> orders[i][1]
                      [] c = "total_price"  -> orders[i][2]
                      [] c = "is_active"    -> orders[i][3]
                      [] c = "etl_inserted" -> FirstReading]]),
        primary_keys("WideOrdersGoldETL"))

\* the envelopes handed to transform_upstream of gold unit u
GivenEnvelopes(u) ==
    IF u = "DailyOrderMetricsGoldETL"
    THEN {<< OrdersEnvelope(orders) >> : orders \in OrderLists}
    ELSE {InputsOf[u][snapshot] : snapshot \in RawSnapshots}

\* a unit built with the constructor's defaults, about to transform the envelopes
TransformInit ==
    /\ storage = EmptyStorage
    /\ written = << >>
    /\ clock = FirstReading
    /\ api = [inst |-> TableETL("", FALSE, FALSE), held |-> FALSE,
              data |-> ETLDataSet("", NoData, << >>),
              snapshot |-> "clean", stamp |-> NULL, verdict |-> "none", read |-> NoRead]
    /\ \E u \in TopUnits :
          /\ driver = [IdleDriver EXCEPT !.phase = "running", !.target = u,
                                         !.run_upstream = TRUE, !.write_data = TRUE]
          /\ \E given \in GivenEnvelopes(u) :
                stack = << [Frame(TableETL(u, TRUE, TRUE), NoTable) EXCEPT
                               !.pc = "transform", !.upstream_etl_datasets = given] >>

TransformNext == TransformUpstream \/ Validate

SpecTransform == TransformInit /\ [][TransformNext]_vars

(* ------------------------------------------------------------------ *)
(* Properties of the run() chain                                       *)
(* ------------------------------------------------------------------ *)
Frames == {stack[d] : d \in 1..Len(stack)}

\* the units a unit's run() runs before its own transform, at any depth
RECURSIVE Ancestors(_)
Ancestors(u) ==
    Range(upstream_tables(u)) \cup UNION {Ancestors(a) : a \in Range(upstream_tables(u))}

ExtractReturned(f) == f.pc \in {"transform", "validate", "write", "done", "rejected"}

\* C1: extract_upstream of a unit with upstream_tables [U1..Un] returns exactly n
\* envelopes, the i-th being what read() returned on the instance of Ui, in
\* declaration order, for every setting of the flags and however long the
\* upstream runs took.
C1_ExtractInDeclarationOrder ==
    \A f \in Frames :
        f.self.unit \notin BronzeUnits =>
            /\ Len(f.upstream_etl_datasets) = Len(f.reads)
            /\ Len(f.upstream_etl_datasets) <= Len(upstream_tables(f.self.unit))
            /\ ExtractReturned(f) =>
                   Len(f.upstream_etl_datasets) = Len(upstream_tables(f.self.unit))
            /\ \A j \in 1..Len(f.upstream_etl_datasets) :
                   /\ f.reads[j].unit = upstream_tables(f.self.unit)[j]
                   /\ f.upstream_etl_datasets[j].name = upstream_tables(f.self.unit)[j]
                   /\ f.upstream_etl_datasets[j].current_data = f.reads[j].df

\* C1 witness: the five envelopes of WideOrderItemsGoldETL after its upstreams ran
C1_Witness ==
    \E f \in Frames :
        /\ f.self.unit = "WideOrderItemsGoldETL"
        /\ f.self.run_upstream
        /\ f.pc = "transform"
        /\ Len(f.upstream_etl_datasets) = Len(GoldUpstreamTables("WideOrderItemsGoldETL"))
        /\ f.upstream_etl_datasets[1].current_data.rows # << >>

\* C2: with run_upstream set, the whole run() of an upstream, its own upstream
\* runs included, is over before read() is called on it, every upstream has been
\* read before the unit's transform starts, and no transform starts before the
\* transforms of all its ancestors have ended.
C2_PostOrder ==
    \A d \in 1..Len(stack) :
        LET f == stack[d]
        IN /\ (f.pc = "read" /\ f.self.run_upstream) => f.table.ran \in {"done", "rejected"}
           /\ f.pc = "await" => /\ d < Len(stack)
                                /\ stack[d + 1].self.unit = f.table.unit
           /\ (f.pc = "transform" /\ f.self.unit \notin BronzeUnits) =>
                  Len(f.reads) = Len(upstream_tables(f.self.unit))
           /\ (f.pc = "transform" /\ f.self.run_upstream) =>
                  Ancestors(f.self.unit) \subseteq driver.transformed

\* C2 witness: DailyOrderMetricsGoldETL about to transform after three levels of
\* upstream runs
C2_Witness ==
    /\ Len(stack) = 1
    /\ Top.self.unit = "DailyOrderMetricsGoldETL"
    /\ Top.self.run_upstream
    /\ Top.pc = "transform"
    /\ Cardinality(driver.transformed) >= 3

\* C6: a run() whose validate returns false ends Rejected without a write to the
\* unit's storage path; a write happens only after validate returned true on that
\* envelope and only with write_data; the refusal is a value, not a raised error.
C6_ValidationGatesWrite ==
    /\ [](\A f \in Frames :
             /\ f.pc = "rejected" => /\ storage[f.self.unit] = f.before
                                     /\ ~validate(f.data).ok
                                     /\ driver.outcome # "raised"
             /\ f.pc \in {"write", "done"} => validate(f.data).ok)
    /\ [][ /\ \A u \in Units :
                storage'[u] # storage[u] =>
                    /\ stack # << >>
                    /\ Top.self.unit = u
                    /\ Top.pc = "write"
                    /\ Top.self.write_data
                    /\ ~validate(Top.data).raised
                    /\ validate(Top.data).ok
           /\ ( /\ stack # << >>
                /\ Top.pc = "validate"
                /\ ~validate(Top.data).raised
                /\ ~validate(Top.data).ok )
              => /\ Len(stack') = Len(stack)
                 /\ stack'[Len(stack)].pc = "rejected"
                 /\ driver'.outcome # "raised"
                 /\ storage' = storage ]_vars

\* C6 witness: a run with write_data on that ended Rejected
C6_Witness ==
    \E f \in Frames :
        /\ f.pc = "rejected"
        /\ f.self.write_data
        /\ f.data.current_data.rows # << >>

\* C9: every instance created in the chain of a top-level run() carries the
\* run_upstream and write_data of the top-level unit.
C9_FlagsPropagate ==
    \A f \in Frames :
        /\ f.self.run_upstream = driver.run_upstream
        /\ f.self.write_data = driver.write_data
        /\ f.pc \in {"await", "read"} =>
               /\ f.table.run_upstream = driver.run_upstream
               /\ f.table.write_data = driver.write_data

\* C9 witness: three nested run() calls made with write_data off
C9_Witness ==
    /\ Len(stack) >= 3
    /\ ~driver.write_data
    /\ Top.self.unit \in BronzeUnits
    /\ ~Top.self.write_data

(* ------------------------------------------------------------------ *)
(* Properties of the single unit                                       *)
(* ------------------------------------------------------------------ *)
\* the rows of a dataframe restricted to some columns
Restricted(df, cols) ==
    [i \in 1..Len(df.rows) |-> [c \in Range(cols) |-> df.rows[i][c]]]

StrictlyIncreasingWrites ==
    \A i, j \in 1..Len(written) : i < j => written[i].stamp < written[j].stamp

DistinctStamps ==
    \A i, j \in 1..Len(written) : i # j => written[i].stamp # written[j].stamp

Partitions(table) == {table.rows[i]["etl_inserted"] : i \in 1..Len(table.rows)}

ApiCanonical == selected_columns(api.inst.unit)

ReadFresh == api.read.done /\ ~api.read.raised

\* C3: after N >= 1 writes of the unit at strictly increasing ingestion
\* timestamps, with write_data on, read() without partition_values returns
\* exactly the rows of the last write and no row of an earlier one (stated for
\* the gold classes, whose read() this is).
C3_LatestReadIsLastWrite ==
    ( /\ api.read.done
      /\ api.inst.unit \in GoldUnits
      /\ api.inst.write_data
      /\ api.read.partition_values = << >>
      /\ Len(written) >= 1
      /\ StrictlyIncreasingWrites )
    => /\ ~api.read.raised
       /\ SameRows(api.read.df.rows, Restricted(written[Len(written)].df, ApiCanonical))

\* C4: with write_data on and writes at strictly increasing timestamps persisted,
\* read({"etl_inserted": t_k}) returns exactly the rows written at t_k, for every
\* k, whatever was written after t_k.
C4_ExplicitPartitionRead ==
    \A k \in 1..Len(written) :
        ( /\ api.read.done
          /\ api.inst.write_data
          /\ StrictlyIncreasingWrites
          /\ api.read.partition_values = << << "etl_inserted", FormatTs(written[k].stamp) >> >> )
        => /\ ~api.read.raised
           /\ SameRows(api.read.df.rows, Restricted(written[k].df, ApiCanonical))

\* C4 witness: an earlier, non-empty write read back by its timestamp after a later one
C4_Witness ==
    /\ ReadFresh
    /\ api.inst.write_data
    /\ Len(written) = 2
    /\ StrictlyIncreasingWrites
    /\ written[1].df.rows # << >>
    /\ written[2].df.rows # << >>
    /\ api.read.partition_values = << << "etl_inserted", FormatTs(written[1].stamp) >> >>
    /\ api.read.df.rows # << >>

\* C5: with write_data off, read() after transform_upstream on the same instance
\* returns exactly the rows of the transform output projected to the canonical
\* columns, loads nothing from storage, and does so with partition_values given too.
C5_MemoryRead ==
    ( api.read.done /\ ~api.inst.write_data /\ api.held )
    => /\ ~api.read.raised
       /\ api.read.loads = 0
       /\ api.read.df.cols = ApiCanonical
       /\ api.read.df.rows = Restricted(api.data.current_data, ApiCanonical)

\* C5 witness: a read with partition_values served from memory
C5_Witness ==
    /\ ReadFresh
    /\ ~api.inst.write_data
    /\ api.held
    /\ api.read.partition_values # << >>
    /\ api.read.df.rows # << >>
    /\ api.read.loads = 0

HasNullKey(data) ==
    \E i \in 1..Len(data.current_data.rows) : \E k \in Range(data.primary_keys) :
        data.current_data.rows[i][k] = NULL

HasRepeatedKey(data) ==
    \E i, j \in 1..Len(data.current_data.rows) :
        /\ i # j
        /\ \A k \in Range(data.primary_keys) :
               data.current_data.rows[i][k] = data.current_data.rows[j][k]

\* C7: validate returns false for an envelope with a NULL in a primary-key column
\* or with two rows of one primary-key tuple, true for an envelope whose
\* primary-key tuples are non-NULL and pairwise distinct, and raises for neither.
C7_ValidationGate ==
    ( api.verdict # "none" /\ HasColumns(api.data.current_data, api.data.primary_keys) )
    => api.verdict = (IF HasNullKey(api.data) \/ HasRepeatedKey(api.data)
                      THEN "false" ELSE "true")

\* C7 witness: an envelope with a repeated, non-NULL key was refused
C7_Witness ==
    /\ api.verdict = "false"
    /\ HasRepeatedKey(api.data)
    /\ ~HasNullKey(api.data)

AllWrittenRows == Flatten([k \in 1..Len(written) |-> written[k].df.rows])

ReadableByStamp(k) ==
    LET got == read(api.inst, << << "etl_inserted", FormatTs(written[k].stamp) >> >>,
                    storage[api.inst.unit])
    IN /\ ~got.raised
       /\ SameRows(got.df.rows, Restricted(written[k].df, ApiCanonical))

BronzeInput == InputsOf[api.inst.unit][api.snapshot][1].current_data

\* C10: a bronze transform_upstream yields the input columns plus etl_inserted,
\* and its rows restricted to the input columns are the input rows.
C10_BronzeAppendsTimestamp ==
    ( api.held /\ api.inst.unit \in BronzeUnits )
    => /\ Range(api.data.current_data.cols) = Range(BronzeInput.cols) \cup {"etl_inserted"}
       /\ Len(api.data.current_data.cols) = Len(BronzeInput.cols) + 1
       /\ Restricted(api.data.current_data, BronzeInput.cols) = BronzeInput.rows

\* C10 witness: a bronze unit transformed two raw rows
C10_Witness ==
    /\ api.held
    /\ api.inst.unit \in BronzeUnits
    /\ Len(BronzeInput.rows) = 2
    /\ Len(api.data.current_data.rows) = 2
    /\ "etl_inserted" \in Range(api.data.current_data.cols)

\* the stored rows that match every key/value pair of partition_values
MatchingRows(table, partition_values) ==
    SelectSeq(table.rows,
        LAMBDA r : \A j \in 1..Len(partition_values) : ClauseHolds(r, partition_values[j]))

\* C12: for read(partition_values) with write_data on and a non-empty map of any
\* size, the filter text is a well-formed conjunction of one equality clause per
\* supplied key and nothing else, and the result is exactly the stored rows that
\* match every supplied pair (stated for the gold classes, whose read() this is).
C12_FilterIsConjunction ==
    LET table == storage[api.inst.unit]
        pv    == api.read.partition_values
    IN ( /\ api.read.done
         /\ api.inst.unit \in GoldUnits
         /\ api.inst.write_data
         /\ pv # << >>
         /\ table.exists
         /\ \A j \in 1..Len(pv) : pv[j][1] \in Range(table.cols) )
       => /\ WellFormed(Words(PartitionFilter(pv), ""))
          /\ ParsedClauses(Words(PartitionFilter(pv), "")) = pv
          /\ ~api.read.raised
          /\ SameRows(api.read.df.rows,
                      Restricted(DataFrame(table.cols, MatchingRows(table, pv)), ApiCanonical))

(* ------------------------------------------------------------------ *)
(* Properties of the gold transforms                                   *)
(* ------------------------------------------------------------------ *)
\* the frame of a transform_upstream call that returned
TransformReturned == stack # << >> /\ Top.pc = "validate"

\* the orders of the envelope handed to the daily transform
GivenOrders == Top.upstream_etl_datasets[1].current_data.rows

ActiveOn(d) ==
    SelectSeq(GivenOrders, LAMBDA r : r["is_active"] = TRUE /\ CastDate(r["order_ts"]) = d)

ActiveDates == {CastDate(GivenOrders[i]["order_ts"]) :
                   i \in {j \in 1..Len(GivenOrders) : GivenOrders[j]["is_active"] = TRUE}}

\* C11: DailyOrderMetricsGoldETL.transform_upstream outputs exactly one row per
\* order_date with at least one active order; its total_price_sum is the sum and
\* its total_price_mean the mean of total_price over the active orders of that
\* date only; a date with only inactive orders yields no row.
C11_DailyAggregation ==
    ( TransformReturned /\ Top.self.unit = "DailyOrderMetricsGoldETL" )
    => LET out == Top.data.current_data.rows
       IN /\ {out[i]["order_date"] : i \in 1..Len(out)} = ActiveDates
          /\ Len(out) = Cardinality(ActiveDates)
          /\ \A i \in 1..Len(out) :
                LET prices == Column(DataFrame(<< >>, ActiveOn(out[i]["order_date"])),
                                     "total_price")
                IN /\ out[i]["total_price_sum"] = SumSeq(prices)
                   /\ out[i]["total_price_mean"].den > 0
                   /\ out[i]["total_price_mean"].num * Len(prices)
                          = SumSeq(prices) * out[i]["total_price_mean"].den

\* C11 witness: active 20 and 30 and an inactive order, all on one date, give the
\* one row with sum 50 and mean 25
C11_Witness ==
    /\ TransformReturned
    /\ Top.self.unit = "DailyOrderMetricsGoldETL"
    /\ Len(GivenOrders) = 3
    /\ Len(Top.data.current_data.rows) = 1
    /\ \E i \in 1..Len(GivenOrders) :
          /\ GivenOrders[i]["is_active"] = FALSE
          /\ CastDate(GivenOrders[i]["order_ts"]) = Top.data.current_data.rows[1]["order_date"]
    /\ Top.data.current_data.rows[1]["total_price_sum"] = 50
    /\ Top.data.current_data.rows[1]["total_price_mean"] = [num |-> 25, den |-> 1]

\* the columns of a dataframe that show the name etl_inserted
TimestampColumns(df) == {i \in 1..Len(df.cols) : BaseName(df.cols[i]) = "etl_inserted"}

\* C13: in every transform_upstream call of a gold unit the ingestion timestamp is
\* read once, every output row carries that value in etl_inserted, and the output
\* has exactly one etl_inserted column: those of the upstream sides do not
\* survive, so all rows of one transform land in one partition.
C13_SingleTimestamp ==
    ( TransformReturned /\ Top.self.unit \in TopUnits )
    => LET out == Top.data.current_data
       IN /\ Cardinality(TimestampColumns(out)) = 1
          /\ "etl_inserted" \in Range(out.cols)
          /\ \A i \in 1..Len(out.rows) : out.rows[i]["etl_inserted"] = clock
          /\ Cardinality(Partitions(out)) <= 1

\* C13 witness: WideOrderItemsGoldETL joined sides stamped earlier and stamped its
\* rows with a later reading
C13_Witness ==
    /\ TransformReturned
    /\ Top.self.unit = "WideOrderItemsGoldETL"
    /\ Len(Top.data.current_data.rows) >= 2
    /\ \A j \in 1..3 :
          \A i \in 1..Len(Top.upstream_etl_datasets[j].current_data.rows) :
              Top.upstream_etl_datasets[j].current_data.rows[i]["etl_inserted"] < clock
    /\ Top.upstream_etl_datasets[2].current_data.rows # << >>
    /\ Partitions(Top.data.current_data) = {clock}

\* C14: for each gold unit of the repository built with its defaults, every
\* declared primary-key column is a column of the envelope transform_upstream
\* produces and of the canonical column list read() projects to, so that validate
\* can evaluate the primary-key check on the unit's own output.
C14_PrimaryKeysInOutput ==
    ( TransformReturned /\ Top.self.unit \in TopUnits )
    => /\ Top.data.primary_keys = GoldPrimaryKeys(Top.self.unit)
       /\ HasColumns(Top.data.current_data, GoldPrimaryKeys(Top.self.unit))
       /\ Range(GoldPrimaryKeys(Top.self.unit)) \subseteq Range(selected_columns(Top.self.unit))
       /\ ~validate(Top.data).raised

\* C15: for every setting of run_upstream and write_data at the top level,
\* whenever read() is about to take the in-memory path (write_data off) on an
\* instance, that instance's transform_upstream has run and set current_data;
\* extract_upstream never reads a fresh upstream instance that holds no data.
C15_MemoryReadAfterTransform ==
    \A f \in Frames :
        ( f.pc = "read" /\ ReadMode(f.table, << >>) = "memory" ) => f.table.has_data
====
